---------------------------- MODULE Spec2Model ----------------------------
(***************************************************************************)
(* Model of the recommender engine of src/src/recommender.ts: the TF-IDF   *)
(* content model, the interaction store with its per-user sparse vectors,  *)
(* the collaborative scoring and the blend.                                *)
(*                                                                         *)
(* Representation.                                                         *)
(*  - A JavaScript Map is a sequence of <<key, value>> pairs in insertion  *)
(*    order (iteration order of a Map is its insertion order); a Set is a  *)
(*    sequence of distinct elements in insertion order.                    *)
(*  - A text is the sequence of its words, i.e. of the maximal runs the    *)
(*    tokenizer's character replacement and whitespace split produce.      *)
(*  - Array.prototype.sort is stable; StableSortDesc is a stable sort.     *)
(*  - float64 values that are irrational in the source (square roots,      *)
(*    logarithms) are fixed-point integers: a cosine is in units of        *)
(*    1/SCALE.  Sums of event weights are exact integers.  The blended     *)
(*    score of one call is the exact rational alpha*c/cmax +               *)
(*    (1-alpha)*f/fmax, kept as a numerator over the call's common         *)
(*    denominator.                                                         *)
(*  - A returned row carries product_id (and reasons on the blend path);   *)
(*    the presentation fields copied from the catalog record and the       *)
(*    score rounded for display are not carried.                           *)
(***************************************************************************)
EXTENDS Integers, Sequences, FiniteSets, TLC

VARIABLES cache, interactions, userVectors, op, args, result, aux

vars == <<cache, interactions, userVectors, op, args, result, aux>>

store == <<interactions, userVectors>>

\* ------------------------------------------------------------------ bounds
\* At most MaxEvents interactions are accepted in one behaviour.
MaxEvents == 3

\* ---------------------------------------------------------- number helpers
\* toFixed(4) keeps units of 1/10000; a dense (content) cosine is computed
\* SUB times finer, in units of 1/SCALE.
SUB == 10
SCALE == 10000 * SUB
\* A sparse (user to user) cosine is in units of 1/SSCALE.
SSCALE == 1000
\* Length of a stored fixed-point unit vector.
UNIT == 100
Min(a, b) == IF a < b THEN a ELSE b
Max(a, b) == IF a > b THEN a ELSE b

RECURSIVE IsqrtIter(_, _)
IsqrtIter(n, x) ==
  LET y == (x + (n \div x)) \div 2
  IN  IF y >= x THEN x ELSE IsqrtIter(n, y)

\* Math.sqrt, rounded down to an integer.
Isqrt(n) == IF n <= 0 THEN 0 ELSE IsqrtIter(n, n)

\* ------------------------------------------------------------- Map helpers
MapKeys(m) == [i \in 1..Len(m) |-> m[i][1]]
MapHas(m, k) == \E i \in 1..Len(m) : m[i][1] = k
MapIdx(m, k) == CHOOSE i \in 1..Len(m) : m[i][1] = k
\* Map.get of a key the map has.
MapGet(m, k) == m[MapIdx(m, k)][2]
\* An optional value: <<>> when it is undefined, <<v>> when it is v.
Given(o) == o # <<>>
\* m.get(k) || 0 and m.get(k) ?? 0 on a map of numbers.
MapGet0(m, k) == IF MapHas(m, k) THEN m[MapIdx(m, k)][2] ELSE 0
\* Map.set: overwrite in place, or append a new key.
MapSet(m, k, v) ==
  IF MapHas(m, k) THEN [m EXCEPT ![MapIdx(m, k)] = <<k, v>>]
  ELSE Append(m, <<k, v>>)
MapDelete(m, k) == SelectSeq(m, LAMBDA e : e[1] # k)
SeqHas(s, x) == \E i \in 1..Len(s) : s[i] = x
\* Set.add
SetAdd(s, x) == IF SeqHas(s, x) THEN s ELSE Append(s, x)
Range(s) == {s[i] : i \in 1..Len(s)}

RECURSIVE SumSeq(_)
SumSeq(s) == IF s = <<>> THEN 0 ELSE Head(s) + SumSeq(Tail(s))

\* Array.prototype.slice(0, limit) for an integer limit >= 0
Slice(s, limit) == SubSeq(s, 1, Min(Len(s), limit))

\* Arrays that the source sorts hold entries with a score; the model keeps
\* such an entry as a tuple whose second component is the score.
\* Insert e behind the last element whose score is >= e's score.
RECURSIVE InsertDesc(_, _)
InsertDesc(sorted, e) ==
  IF sorted = <<>> THEN <<e>>
  ELSE IF sorted[Len(sorted)][2] >= e[2] THEN Append(sorted, e)
  ELSE Append(InsertDesc(SubSeq(sorted, 1, Len(sorted) - 1), e),
              sorted[Len(sorted)])

RECURSIVE SortFrom(_, _)
SortFrom(done, rest) ==
  IF rest = <<>> THEN done
  ELSE SortFrom(InsertDesc(done, Head(rest)), Tail(rest))

\* arr.sort((a, b) => b.score - a.score): stable, descending by score.
StableSortDesc(arr) == SortFrom(<<>>, arr)

\* ----------------------------------------------------------------- strings
\* String.prototype.trim on the strings the model passes around.
trim(s) ==
  CASE s = " P1 " -> "P1"
    [] s = " U2 " -> "U2"
    [] OTHER      -> s

\* String.prototype.toLowerCase on the strings the model passes around.
toLowerCase(s) ==
  CASE s = "P1"       -> "p1"
    [] s = " P1 "     -> " p1 "
    [] s = "U2"       -> "u2"
    [] s = " U2 "     -> " u2 "
    [] s = "Red"      -> "red"
    [] s = "Blue"     -> "blue"
    [] s = "Shoes"    -> "shoes"
    [] s = "Footwear" -> "footwear"
    [] s = "FOOTWEAR" -> "footwear"
    [] s = "KITCHEN"  -> "kitchen"
    [] s = "Boots"    -> "boots"
    [] s = "Outdoor"  -> "outdoor"
    [] s = "Mug"      -> "mug"
    [] s = "Kitchen"  -> "kitchen"
    [] OTHER          -> s

\* x.trim().toLowerCase(): the canonical form of a user or product id.
Canon(s) == toLowerCase(trim(s))

\* tokenize: lower-case every word and keep the words longer than one
\* character.
tokenize(text) ==
  SelectSeq([i \in 1..Len(text) |-> toLowerCase(text[i])],
            LAMBDA t : Len(t) > 1)


\* ------------------------------------------------------------ the catalog
\* price.toFixed(2), as the two words the tokenizer's split leaves of it
\* (the decimal point is replaced by a space); a price is held in cents.
toFixed2(price) ==
  LET c == price % 100
  IN  <<ToString(price \div 100),
        IF c < 10 THEN "0" \o ToString(c) ELSE ToString(c)>>

\* The catalog snapshot the engine is started with (what loadCatalog
\* returns: product ids already trimmed and lower-cased).  p1, p2 and p4
\* share words pairwise, p3 shares none with the others.
Catalog ==
  << [product_id |-> "p1", title |-> <<"Red", "Shoes">>,
      categories |-> <<"Footwear">>, price |-> 4990],
     [product_id |-> "p2", title |-> <<"Blue", "Shoes">>,
      categories |-> <<"FOOTWEAR">>, price |-> 5590],
     [product_id |-> "p3", title |-> <<"Mug">>,
      categories |-> <<"Kitchen">>, price |-> 950],
     [product_id |-> "p4", title |-> <<"Red", "Boots">>,
      categories |-> <<"Footwear", "Outdoor">>, price |-> 12000] >>

\* ------------------------------------------------------------------ TF-IDF
\* 100 * Math.log(n / d), rounded, for the ratios (N + 1) / (df + 1) of a
\* catalog of up to four products.
Log100(n, d) ==
  CASE n = d            -> 0
    [] n = 3 /\ d = 2   -> 41
    [] n = 4 /\ d = 2   -> 69
    [] n = 4 /\ d = 3   -> 29
    [] n = 5 /\ d = 2   -> 92
    [] n = 5 /\ d = 3   -> 51
    [] n = 5 /\ d = 4   -> 22

\* Number of occurrences of t in the token list toks.
Count(toks, t) == Len(SelectSeq(toks, LAMBDA x : x = t))

RECURSIVE Distinct(_, _)
\* The distinct elements of rest, in first-seen order, appended to seen.
Distinct(seen, rest) ==
  IF rest = <<>> THEN seen
  ELSE Distinct(SetAdd(seen, Head(rest)), Tail(rest))

RECURSIVE Concat(_)
Concat(ss) == IF ss = <<>> THEN <<>> ELSE Head(ss) \o Concat(Tail(ss))

\* Sum of squares and dot product of dense vectors of equal length.
SumSq(v) == SumSeq([i \in 1..Len(v) |-> v[i] * v[i]])
Dot(a, b) == SumSeq([i \in 1..Len(a) |-> a[i] * b[i]])

\* The vector of a token list: tf * idf per vocabulary index, divided by
\* its Euclidean norm (norm || 1).  Tokens outside the vocabulary count in
\* the length only.
UnitVector(toks, vocab, idf) ==
  LET raw  == [i \in 1..Len(vocab) |->
                 IF Count(toks, vocab[i]) = 0 THEN 0
                 ELSE (Count(toks, vocab[i]) * idf[i] * 10) \div Len(toks)]
      n    == Isqrt(SumSq(raw))
      norm == IF n = 0 THEN 1 ELSE n
  IN  [i \in 1..Len(vocab) |-> (raw[i] * UNIT) \div norm]

buildTFIDF(products) ==
  LET docs == [i \in 1..Len(products) |->
                 [id   |-> products[i].product_id,
                  text |-> products[i].title \o products[i].categories
                           \o toFixed2(products[i].price)]]
      tokenized == [i \in 1..Len(docs) |-> tokenize(docs[i].text)]
      vocab == Distinct(<<>>, Concat(tokenized))
      df(t) == Cardinality({i \in 1..Len(docs) : SeqHas(tokenized[i], t)})
      N     == Len(docs)
      idf   == [i \in 1..Len(vocab) |-> Log100(N + 1, df(vocab[i]) + 1) + 100]
  IN  [vocab   |-> vocab,
       idf     |-> idf,
       vectors |-> [i \in 1..Len(docs) |->
                      <<docs[i].id, UnitVector(tokenized[i], vocab, idf)>>]]

\* cosine of two dense vectors, in units of 1/SCALE; 0 when either is zero.
cosine(a, b) ==
  LET dot == Dot(a, b)
      na  == SumSq(a)
      nb  == SumSq(b)
  IN  IF na = 0 \/ nb = 0 THEN 0
      ELSE (dot * SCALE) \div Isqrt(na * nb)

\* The cache initRecommender builds from a catalog snapshot.
initRecommender(products) ==
  [products |-> products,
   model    |-> buildTFIDF(products),
   byId     |-> [i \in 1..Len(products) |-> <<products[i].product_id, products[i]>>]]

getVectorFromText(text, model) ==
  UnitVector(tokenize(text), model.vocab, model.idf)


\* Number(x.toFixed(4)) of a dense cosine: from units of 1/SCALE to units
\* of 1/10000, rounded half up.
toFixed4(x) == ((2 * x) + SUB) \div (2 * SUB)

\* ------------------------------------------------------- content scoring
\* The inputs of the scoring requests.
RawUserIds == {"u1", " U2 "}
RawProductIds == {" P1 ", "p2", "p3", "zz"}
Queries == {<<"Blue", "Shoes", "zebra">>, <<"x", "Mug">>}

\* rankBySeed without the test that skips the seed itself.
rankBySeedAll(c, pid) ==
  LET baseVec == MapGet(c.model.vectors, pid)
      scores == [i \in 1..Len(c.products) |->
                   <<c.products[i].product_id,
                     cosine(baseVec,
                            MapGet(c.model.vectors, c.products[i].product_id))>>]
  IN  StableSortDesc(scores)

\* The loop and the sort of recommendByProductId for a seed pid that has a
\* vector: <<product_id, score>> of every other product, best first.
rankBySeed(c, pid) ==
  LET baseVec == MapGet(c.model.vectors, pid)
      scores == [i \in 1..Len(c.products) |->
                   <<c.products[i].product_id,
                     cosine(baseVec,
                            MapGet(c.model.vectors, c.products[i].product_id))>>]
  IN  StableSortDesc(SelectSeq(scores, LAMBDA e : e[1] # pid))

\* The loop and the sort of recommendByQuery.
rankByQuery(c, query) ==
  LET qvec == getVectorFromText(query, c.model)
      scores == [i \in 1..Len(c.products) |->
                   <<c.products[i].product_id,
                     cosine(qvec, MapGet(c.model.vectors, c.products[i].product_id))>>]
  IN  StableSortDesc(scores)

\* The cache the engine holds from startup on.  The cache and its model
\* are immutable, so a ranking is a function of the cache and the seed (or
\* the query) alone: the rankings over StartCache are computed once and
\* looked up afterwards.
StartCache == initRecommender(Catalog)

RECURSIVE SeedRankings(_)
SeedRankings(ps) ==
  IF ps = <<>> THEN <<>>
  ELSE <<<<Head(ps).product_id, rankBySeed(StartCache, Head(ps).product_id)>>>>
       \o SeedRankings(Tail(ps))

RECURSIVE QueryRankings(_)
QueryRankings(qs) ==
  IF qs = {} THEN <<>>
  ELSE LET q == CHOOSE x \in qs : TRUE
       IN  <<<<q, rankByQuery(StartCache, q)>>>> \o QueryRankings(qs \ {q})

SeedRankingMemo == SeedRankings(Catalog)
QueryRankingMemo == QueryRankings(Queries)

\* The rows are <<product_id, rounded score>> in rank order.
recommendByProductId(c, productId, limit) ==
  LET pid == Canon(productId)
      ranking == IF c = StartCache THEN MapGet(SeedRankingMemo, pid)
                 ELSE rankBySeed(c, pid)
      top == Slice(ranking, limit)
  IN  IF ~MapHas(c.model.vectors, pid) THEN <<>>
      ELSE [i \in 1..Len(top) |-> <<top[i][1], toFixed4(top[i][2])>>]

recommendByQuery(c, query, limit) ==
  LET ranking == IF c = StartCache /\ query \in Queries
                 THEN MapGet(QueryRankingMemo, query)
                 ELSE rankByQuery(c, query)
      top == Slice(ranking, limit)
  IN  [i \in 1..Len(top) |-> <<top[i][1], toFixed4(top[i][2])>>]

\* ------------------------------------------------------ interaction store
WEIGHT(type) ==
  CASE type = "view"     -> 1
    [] type = "cart"     -> 3
    [] type = "purchase" -> 5

\* registerEvent: the store after the call and the value returned.  The
\* timestamp of an interaction is read by no operation and is not carried.
\* registerEvent recording an event only the first time it is seen.
registerEventOnce(c, ints, uv, ev) ==
  LET pid == Canon(ev.product_id)
      uid == Canon(ev.user_id)
      vec == IF MapHas(uv, uid) THEN MapGet(uv, uid) ELSE <<>>
      rec == [user_id |-> uid, product_id |-> pid, type |-> ev.type]
  IN  IF ~MapHas(c.byId, pid)
      THEN [interactions |-> ints, userVectors |-> uv,
            ret |-> [ok |-> FALSE, ignored |-> TRUE]]
      ELSE IF SeqHas(ints, rec)
      THEN [interactions |-> ints, userVectors |-> uv, ret |-> [ok |-> TRUE]]
      ELSE [interactions |-> Append(ints, rec),
            userVectors |->
              MapSet(uv, uid, MapSet(vec, pid, MapGet0(vec, pid) + WEIGHT(ev.type))),
            ret |-> [ok |-> TRUE]]

\* registerEvent creating the user's vector before the catalog test.
registerEventEager(c, ints, uv, ev) ==
  LET pid == Canon(ev.product_id)
      uid == Canon(ev.user_id)
      uv1 == IF MapHas(uv, uid) THEN uv ELSE MapSet(uv, uid, <<>>)
      vec == MapGet(uv1, uid)
  IN  IF ~MapHas(c.byId, pid)
      THEN [interactions |-> ints, userVectors |-> uv1,
            ret |-> [ok |-> FALSE, ignored |-> TRUE]]
      ELSE [interactions |->
              Append(ints, [user_id |-> uid, product_id |-> pid, type |-> ev.type]),
            userVectors |->
              MapSet(uv1, uid, MapSet(vec, pid, MapGet0(vec, pid) + WEIGHT(ev.type))),
            ret |-> [ok |-> TRUE]]

\* registerEvent storing the weight of the last event instead of adding it.
registerEventOverwrite(c, ints, uv, ev) ==
  LET pid == Canon(ev.product_id)
      uid == Canon(ev.user_id)
      vec == IF MapHas(uv, uid) THEN MapGet(uv, uid) ELSE <<>>
  IN  IF ~MapHas(c.byId, pid)
      THEN [interactions |-> ints, userVectors |-> uv,
            ret |-> [ok |-> FALSE, ignored |-> TRUE]]
      ELSE [interactions |->
              Append(ints, [user_id |-> uid, product_id |-> pid, type |-> ev.type]),
            userVectors |->
              MapSet(uv, uid, MapSet(vec, pid, WEIGHT(ev.type))),
            ret |-> [ok |-> TRUE]]

registerEvent(c, ints, uv, ev) ==
  LET pid == Canon(ev.product_id)
      uid == Canon(ev.user_id)
      vec == IF MapHas(uv, uid) THEN MapGet(uv, uid) ELSE <<>>
  IN  IF ~MapHas(c.byId, pid)
      THEN [interactions |-> ints, userVectors |-> uv,
            ret |-> [ok |-> FALSE, ignored |-> TRUE]]
      ELSE [interactions |->
              Append(ints, [user_id |-> uid, product_id |-> pid, type |-> ev.type]),
            userVectors |->
              MapSet(uv, uid, MapSet(vec, pid, MapGet0(vec, pid) + WEIGHT(ev.type))),
            ret |-> [ok |-> TRUE]]

\* -------------------------------------------------------------------- CF
\* cosineSparse, in units of 1/SSCALE.
cosineSparse(a, b) ==
  LET na == SumSeq([i \in 1..Len(a) |-> a[i][2] * a[i][2]])
      nb == SumSeq([i \in 1..Len(b) |-> b[i][2] * b[i][2]])
      smaller == IF Len(a) < Len(b) THEN a ELSE b
      bigger  == IF Len(a) < Len(b) THEN b ELSE a
      dot == SumSeq([i \in 1..Len(smaller) |->
                       smaller[i][2] * MapGet0(bigger, smaller[i][1])])
  IN  IF na = 0 \/ nb = 0 THEN 0
      ELSE (dot * SSCALE) \div Isqrt(na * nb)

\* topKNeighbors without the sort: the other users in the order of the map.
topKNeighborsUnsorted(uv, userId, k) ==
  LET uid == Canon(userId)
      target == MapGet(uv, uid)
      all == [i \in 1..Len(uv) |-> <<uv[i][1], cosineSparse(target, uv[i][2])>>]
      sims == SelectSeq(all, LAMBDA e : e[1] # uid /\ e[2] > 0)
  IN  IF ~MapHas(uv, uid) THEN <<>>
      ELSE Slice(sims, k)

\* topKNeighbors: <<other user, similarity>> pairs, best first.
topKNeighbors(uv, userId, k) ==
  LET uid == Canon(userId)
      target == MapGet(uv, uid)
      all == [i \in 1..Len(uv) |-> <<uv[i][1], cosineSparse(target, uv[i][2])>>]
      sims == SelectSeq(all, LAMBDA e : e[1] # uid /\ e[2] > 0)
  IN  IF ~MapHas(uv, uid) THEN <<>>
      ELSE Slice(StableSortDesc(sims), k)

RECURSIVE CountUp(_, _)
\* for (const ev of interactions) counts.set(pid, (counts.get(pid) || 0) + WEIGHT)
CountUp(counts, evs) ==
  IF evs = <<>> THEN counts
  ELSE CountUp(MapSet(counts, Head(evs).product_id,
                      MapGet0(counts, Head(evs).product_id) + WEIGHT(Head(evs).type)),
               Tail(evs))

\* popularItems without the sort: the products in first-event order.
popularItemsUnsorted(ints, limit) ==
  Slice(CountUp(<<>>, ints), limit)

\* popularItems: <<product_id, score>> entries, most popular first.
popularItems(ints, limit) ==
  Slice(StableSortDesc(CountUp(<<>>, ints)), limit)

RECURSIVE AddAll(_, _)
\* candidateScore.set(pid, (candidateScore.get(pid) || 0) + sim * w) for a
\* list of <<pid, sim * w>> contributions.
AddAll(m, contribs) ==
  IF contribs = <<>> THEN m
  ELSE AddAll(MapSet(m, Head(contribs)[1],
                     MapGet0(m, Head(contribs)[1]) + Head(contribs)[2]),
              Tail(contribs))

\* Candidates without the test that skips the products in `have`.
CandidatesAll(uv, neigh, have) ==
  LET perNeighbour ==
        [n \in 1..Len(neigh) |->
           LET v == MapGet(uv, neigh[n][1])
           IN  [i \in 1..Len(v) |-> <<v[i][1], neigh[n][2] * v[i][2]>>]]
  IN  AddAll(<<>>, Concat(perNeighbour))

\* The loop over the neighbours and their vectors that builds
\* candidateScore, skipping the products in `have`.
Candidates(uv, neigh, have) ==
  LET perNeighbour ==
        [n \in 1..Len(neigh) |->
           LET v == MapGet(uv, neigh[n][1])
               kept == SelectSeq(v, LAMBDA e : ~SeqHas(have, e[1]))
           IN  [i \in 1..Len(kept) |-> <<kept[i][1], neigh[n][2] * kept[i][2]>>]]
  IN  AddAll(<<>>, Concat(perNeighbour))

\* The constant k both call sites pass to topKNeighbors.
NeighbourK == 30

\* recommendForUser: the rows returned (product ids in rank order), with
\* the neighbours and candidate scores it computed on the way.
recommendForUser(c, ints, uv, userId, limit) ==
  LET uid == Canon(userId)
      myVec == MapGet(uv, uid)
      popular == popularItems(ints, limit)
      popularRows == [i \in 1..Len(popular) |->
                        [product_id |-> MapGet(c.byId, popular[i][1]).product_id]]
  IN  IF ~MapHas(uv, uid) \/ Len(myVec) = 0
      THEN [rows |-> popularRows, branch |-> "popular",
            neigh |-> <<>>, candidateScore |-> <<>>]
      ELSE
        LET neigh == topKNeighbors(uv, uid, NeighbourK)
            candidateScore == Candidates(uv, neigh, MapKeys(myVec))
            top == Slice(StableSortDesc(candidateScore), limit)
        IN  IF Len(candidateScore) = 0
            THEN [rows |-> popularRows, branch |-> "popular",
                  neigh |-> neigh, candidateScore |-> candidateScore]
            ELSE [rows |-> [i \in 1..Len(top) |->
                              [product_id |-> MapGet(c.byId, top[i][1]).product_id]],
                  branch |-> "neighbors",
                  neigh |-> neigh, candidateScore |-> candidateScore]


\* ------------------------------------------------------------------ blend
\* toMapFromArray: later entries overwrite earlier ones with the same id.
RECURSIVE toMapFrom(_, _)
toMapFrom(m, arr) ==
  IF arr = <<>> THEN m
  ELSE toMapFrom(MapSet(m, Head(arr)[1], Head(arr)[2]), Tail(arr))

toMapFromArray(arr) == toMapFrom(<<>>, arr)

\* Number.MAX_SAFE_INTEGER, as the largest limit the model can hold.
MAX_SAFE_INTEGER == 2147483647

\* The largest value of a score map, starting from 0.
MaxValue(m) ==
  IF \A i \in 1..Len(m) : m[i][2] <= 0 THEN 0
  ELSE m[CHOOSE i \in 1..Len(m) : \A j \in 1..Len(m) : m[j][2] <= m[i][2]][2]

\* normalize01: every value divided by the largest one; the quotient v/max
\* is kept exactly, as the numerators m over the denominator den.  A map
\* whose largest value is not positive becomes the empty map.
normalize01(m) ==
  LET max == MaxValue(m)
  IN  IF max <= 0 THEN [m |-> <<>>, den |-> 1]
      ELSE [m |-> m, den |-> max]

contentScoresFromSeed(c, pid) ==
  toMapFromArray(recommendByProductId(c, pid, MAX_SAFE_INTEGER))

contentScoresFromQuery(c, q) ==
  toMapFromArray(recommendByQuery(c, q, MAX_SAFE_INTEGER))

\* cfScoresForUser; neigh is the neighbour list it selected.
cfScoresForUser(ints, uv, uid) ==
  LET u == Canon(uid)
      vec == MapGet(uv, u)
  IN  IF ~MapHas(uv, u) \/ Len(vec) = 0
      THEN [scores |-> toMapFromArray(popularItems(ints, MAX_SAFE_INTEGER)),
            hadVector |-> FALSE, neigh |-> <<>>]
      ELSE LET neigh == topKNeighbors(uv, u, NeighbourK)
           IN  [scores |-> Candidates(uv, neigh, MapKeys(vec)),
                hadVector |-> TRUE, neigh |-> neigh]

\* An optional string is truthy when it is given and not empty.
Truthy(o) == Given(o) /\ o[1] # ""

\* Math.min(1, Math.max(0, r)) of a rational r = <<numerator, denominator>>.
Clamp01(r) ==
  IF r[1] < 0 THEN <<0, 1>> ELSE IF r[1] > r[2] THEN <<1, 1>> ELSE r

RECURSIVE MergeMax(_, _)
\* for (const [k, v] of m) content.set(k, Math.max(content.get(k) || 0, v))
MergeMax(content, m) ==
  IF m = <<>> THEN content
  ELSE MergeMax(MapSet(content, Head(m)[1],
                       Max(MapGet0(content, Head(m)[1]), Head(m)[2])),
                Tail(m))

RECURSIVE TagAll(_, _, _)
\* addReason(k, r) for every key k
TagAll(reasons, keys, r) ==
  IF keys = <<>> THEN reasons
  ELSE TagAll(MapSet(reasons, Head(keys),
                     SetAdd(IF MapHas(reasons, Head(keys))
                            THEN MapGet(reasons, Head(keys)) ELSE <<>>, r)),
              Tail(keys), r)

\* InBias comparing the categories as they are spelled in the catalog.
InBiasCaseSensitive(p, biasCats) ==
  \E i \in 1..Len(p.categories) : SeqHas(biasCats, p.categories[i])

\* Whether the product record p has a category in the lower-cased list.
InBias(p, biasCats) ==
  \E i \in 1..Len(p.categories) : SeqHas(biasCats, toLowerCase(p.categories[i]))

\* blendedScore with the two weights exchanged.
blendedScoreSwapped(alpha, beta, nContent, nCF, pid) ==
  (alpha[2] - alpha[1]) * beta[2] * nCF.den * MapGet0(nContent.m, pid)
  + alpha[1] * beta[2] * nContent.den * MapGet0(nCF.m, pid)

\* alpha * (nContent.get(pid) ?? 0) + (1 - alpha) * (nCF.get(pid) ?? 0), as
\* a numerator over alpha[2] * beta[2] * nContent.den * nCF.den.
blendedScore(alpha, beta, nContent, nCF, pid) ==
  alpha[1] * beta[2] * nCF.den * MapGet0(nContent.m, pid)
  + (alpha[2] - alpha[1]) * beta[2] * nContent.den * MapGet0(nCF.m, pid)

\* A blend that never falls back to the popularity ranking.
fallbackNever(top, userId) == FALSE

\* top.length === 0 && opts.userId
fallbackNeeded(top, userId) == Len(top) = 0 /\ Truthy(userId)

\* The CONTENT block: the content map and the reasons it notes, from the
\* scores of the seed (fromSeed) and of the query (fromQuery).
blendContent(seedPid, fromSeed, fromQuery) ==
  LET content1 == IF Truthy(seedPid)
                  THEN MapDelete(MergeMax(<<>>, fromSeed), seedPid[1])
                  ELSE <<>>
      reasons1 == TagAll(<<>>, MapKeys(fromSeed), "similar_to:" \o seedPid[1])
  IN  [content |-> MergeMax(content1, fromQuery),
       reasons |-> TagAll(reasons1, MapKeys(fromQuery), "match_query")]

\* The loop over the union of the two normalised maps, the sort and the
\* slice: the rows of `top`.  Scores are numerators over the common
\* denominator one.
blendTop(c, alpha, beta, biasCats, excludeSeed, excludeSeen, seedPid, haveSeen, reasons, nContent, nCF, limit) ==
  LET union == Distinct(MapKeys(nContent.m), MapKeys(nCF.m))
      one == alpha[2] * beta[2] * nContent.den * nCF.den
      blended(pid) == blendedScore(alpha, beta, nContent, nCF, pid)
      biased(pid) == beta[1] > 0 /\ Len(biasCats) > 0
                     /\ MapHas(c.byId, pid)
                     /\ InBias(MapGet(c.byId, pid), biasCats)
      sc(pid) == IF biased(pid)
                 THEN Min(one, blended(pid)
                               + beta[1] * alpha[2] * nContent.den * nCF.den)
                 ELSE blended(pid)
      kept == SelectSeq(union, LAMBDA pid :
                 /\ ~(excludeSeed /\ Truthy(seedPid) /\ pid = seedPid[1])
                 /\ ~(excludeSeen /\ SeqHas(haveSeen, pid))
                 /\ sc(pid) > 0
                 /\ MapHas(c.byId, pid))
      noted(pid) == IF MapHas(reasons, pid) THEN MapGet(reasons, pid) ELSE <<>>
      combined == [i \in 1..Len(kept) |->
                     <<kept[i], sc(kept[i]),
                       IF biased(kept[i])
                       THEN SetAdd(noted(kept[i]), "bias_category")
                       ELSE noted(kept[i])>>]
      sorted == Slice(StableSortDesc(combined), limit)
  IN  [i \in 1..Len(sorted) |->
         [product_id |-> MapGet(c.byId, sorted[i][1]).product_id,
          reasons |-> sorted[i][3]]]

\* The return statements: the popularity ranking when top is empty and a
\* user id was given, top otherwise.
blendReturn(c, ints, userId, limit, top) ==
  LET popular == popularItems(ints, limit)
  IN  IF fallbackNeeded(top, userId)
      THEN [i \in 1..Len(popular) |->
              [product_id |-> MapGet(c.byId, popular[i][1]).product_id,
               reasons |-> <<"popular">>]]
      ELSE top

\* recommendBlend from the CF block on, given what the CONTENT block (ct)
\* and cfScoresForUser (cfr) produced.
blendScored(c, ints, uv, opts, limit, seedPid, ct, cfr) ==
  LET alpha == Clamp01(IF Given(opts.alpha) THEN opts.alpha[1] ELSE <<1, 2>>)
      rawCats == IF Given(opts.biasCats) THEN opts.biasCats[1] ELSE <<>>
      biasCats == [i \in 1..Len(rawCats) |-> toLowerCase(rawCats[i])]
      beta == Clamp01(IF Given(opts.beta) THEN opts.beta[1] ELSE <<0, 1>>)
      excludeSeen == opts.excludeSeen # <<FALSE>>
      excludeSeed == opts.excludeSeed # <<FALSE>>
      haveSeen == IF Truthy(opts.userId) /\ excludeSeen
                     /\ MapHas(uv, Canon(opts.userId[1]))
                  THEN MapKeys(MapGet(uv, Canon(opts.userId[1]))) ELSE <<>>
      reasons == TagAll(ct.reasons, MapKeys(cfr.scores),
                        IF cfr.hadVector THEN "neighbors" ELSE "popular")
  IN  blendTop(c, alpha, beta, biasCats, excludeSeed, excludeSeen, seedPid,
               haveSeen, reasons, normalize01(ct.content),
               normalize01(cfr.scores), limit)

\* What a blend returns (rows) with what it computed on the way.
blendOutcome(rows, top, userId, content, cfr, seedPid, limit) ==
  [rows |-> rows,
   fallback |-> fallbackNeeded(top, userId),
   content |-> content,
   cf |-> cfr.scores,
   hadVector |-> cfr.hadVector,
   neigh |-> cfr.neigh,
   seedPid |-> seedPid,
   limit |-> limit]

\* recommendBlend once limit, seedPid, the CONTENT block and the CF scores
\* are at hand.
blendFrom(c, ints, uv, opts, limit, seedPid, ct, cfr, top) ==
  blendOutcome(blendReturn(c, ints, opts.userId, limit, top), top,
               opts.userId, ct.content, cfr, seedPid, limit)

\* The loop, the sort and the slice, then the return statements.
blendStages(c, ints, uv, opts, limit, seedPid, ct, cfr) ==
  blendFrom(c, ints, uv, opts, limit, seedPid, ct, cfr,
            blendScored(c, ints, uv, opts, limit, seedPid, ct, cfr))

\* The CONTENT block and the CF scores, then the rest.
blendSeeded(c, ints, uv, opts, limit, seedPid) ==
  blendStages(c, ints, uv, opts, limit, seedPid,
              blendContent(seedPid,
                           IF Truthy(seedPid)
                           THEN contentScoresFromSeed(c, seedPid[1]) ELSE <<>>,
                           IF Given(opts.query)
                           THEN contentScoresFromQuery(c, opts.query[1])
                           ELSE <<>>),
              IF Truthy(opts.userId)
              THEN cfScoresForUser(ints, uv, opts.userId[1])
              ELSE [scores |-> <<>>, hadVector |-> FALSE, neigh |-> <<>>])

\* recommendBlend: limit and seedPid (an optional value), then the rest.
recommendBlend(c, ints, uv, opts) ==
  blendSeeded(c, ints, uv, opts,
              Max(1, Min(50, IF Given(opts.limit) THEN opts.limit[1] ELSE 5)),
              IF Truthy(opts.productId) THEN <<Canon(opts.productId[1])>>
              ELSE <<>>)


\* ------------------------------------------------------------------ inputs
Types == {"view", "cart", "purchase"}
Events == [user_id : RawUserIds, product_id : RawProductIds, type : Types]
\* The events of the behaviours in which the scoring requests are explored:
\* u1 views and purchases, u2 views, both of p1, p3 and an unknown product.
ScoredEvents ==
  {ev \in Events :
     /\ ev.product_id # "p2"
     /\ ev.type = "view" \/ (ev.type = "purchase" /\ ev.user_id = "u1")}

Limits == {1, 2}

Alphas == {<<0, 1>>, <<1, 2>>, <<1, 1>>}
Betas == {<<0, 1>>, <<1, 2>>}
BiasSets == {<<>>, <<"KITCHEN", "outdoor">>}
Flags == {<<>>, <<FALSE>>}

\* The options of a blend request: every combination of the values below
\* in which a flag is spelled out only where its subject is given, a
\* subject is given, the limit is spelled out only without a bias and
\* without a seed, the unknown seed comes with the default alpha, and the
\* query that matches one product alone comes with alpha 1 and no seed.
BlendOpts ==
  {o \in [userId : {<<>>, <<" U2 ">>},
          productId : {<<>>, <<" P1 ">>, <<"zz">>},
          query : {<<>>} \cup {<<q>> : q \in Queries},
          alpha : {<<a>> : a \in Alphas},
          limit : {<<>>, <<1>>},
          biasCats : {<<b>> : b \in BiasSets},
          beta : {<<b>> : b \in Betas},
          excludeSeen : Flags,
          excludeSeed : Flags] :
     /\ (o.userId = <<>> => o.excludeSeen = <<>>)
     /\ (o.productId = <<>> => o.excludeSeed = <<>>)
     /\ (o.userId # <<>> \/ o.productId # <<>> \/ o.query # <<>>)
     /\ (o.beta = <<<<0, 1>>>> => o.biasCats # <<<<>>>>)
     /\ (o.limit # <<>> => o.beta = <<<<0, 1>>>>)
     /\ (o.limit # <<>> => o.productId = <<>>)
     /\ (o.productId = <<"zz">>
           => o.excludeSeed = <<>> /\ o.alpha = <<<<1, 2>>>>)
     /\ (o.query = <<<<"x", "Mug">>>>
           => o.alpha = <<<<1, 1>>>> /\ o.productId = <<>> /\ o.limit = <<>>)}

\* ----------------------------------------------------------------- actions
\* The state after initRecommender() has run at startup; the store is empty.
Init ==
  /\ cache = StartCache
  /\ interactions = <<>>
  /\ userVectors = <<>>
  /\ op = "init"
  /\ args = <<>>
  /\ result = <<>>
  /\ aux = <<>>

\* The model keeps the request served last (op, args) with its response
\* (result, and in aux what the request computed on the way).
RegisterEvent(ev) ==
  LET r == registerEvent(cache, interactions, userVectors, ev)
  IN  /\ Len(interactions) < MaxEvents
      /\ interactions' = r.interactions
      /\ userVectors' = r.userVectors
      /\ op' = "registerEvent"
      /\ args' = ev
      /\ result' = r.ret
      /\ aux' = <<>>
      /\ UNCHANGED cache

RecommendByProductId(productId, limit) ==
  /\ op' = "recommendByProductId"
  /\ args' = [productId |-> productId, limit |-> limit]
  /\ result' = LET rows == recommendByProductId(cache, productId, limit)
               IN  [i \in 1..Len(rows) |-> [product_id |-> rows[i][1]]]
  /\ aux' = <<>>
  /\ UNCHANGED <<cache, interactions, userVectors>>

RecommendByQuery(query, limit) ==
  /\ op' = "recommendByQuery"
  /\ args' = [query |-> query, limit |-> limit]
  /\ result' = LET rows == recommendByQuery(cache, query, limit)
               IN  [i \in 1..Len(rows) |-> [product_id |-> rows[i][1]]]
  /\ aux' = <<>>
  /\ UNCHANGED <<cache, interactions, userVectors>>

\* recommendForUser creating an empty vector for a user that has none.
RecommendForUserCreating(userId, limit) ==
  /\ op' = "recommendForUser"
  /\ args' = [userId |-> userId, limit |-> limit]
  /\ aux' = recommendForUser(cache, interactions, userVectors, userId, limit)
  /\ result' = aux'.rows
  /\ userVectors' = IF MapHas(userVectors, Canon(userId)) THEN userVectors
                    ELSE MapSet(userVectors, Canon(userId), <<>>)
  /\ UNCHANGED <<cache, interactions>>

RecommendForUser(userId, limit) ==
  /\ op' = "recommendForUser"
  /\ args' = [userId |-> userId, limit |-> limit]
  /\ aux' = recommendForUser(cache, interactions, userVectors, userId, limit)
  /\ result' = aux'.rows
  /\ UNCHANGED <<cache, interactions, userVectors>>

RecommendBlend(opts) ==
  /\ op' = "recommendBlend"
  /\ args' = opts
  /\ aux' = recommendBlend(cache, interactions, userVectors, opts)
  /\ result' = aux'.rows
  /\ UNCHANGED <<cache, interactions, userVectors>>

\* A request that leaves the store as it found it (a scoring request, an
\* ignored event) is explored as the last request of a behaviour: whatever
\* follows it finds the store that request found.
Idle == op = "init" \/ (op = "registerEvent" /\ result.ok)

\* The scoring requests over the stores the events of ScoredEvents build.
Next ==
  /\ Idle
  /\ \/ \E ev \in ScoredEvents : RegisterEvent(ev)
     \/ \E p \in RawProductIds, l \in Limits : RecommendByProductId(p, l)
     \/ \E q \in Queries, l \in Limits : RecommendByQuery(q, l)
     \/ \E u \in RawUserIds, l \in Limits : RecommendForUser(u, l)
     \/ \E o \in BlendOpts : RecommendBlend(o)

Spec == Init /\ [][Next]_vars

\* The store under every event type.
NextStore == Idle /\ \E ev \in Events : RegisterEvent(ev)

SpecStore == Init /\ [][NextStore]_vars

\* The neighbour search on its own, over the stores of three users.
\* At most MaxNeighbourEvents interactions are accepted in one behaviour.
MaxNeighbourEvents == 4
NeighbourUserIds == {"u1", " U2 ", "u3"}
NeighbourEvents ==
  {ev \in [user_id : NeighbourUserIds, product_id : {" P1 ", "p3"},
           type : {"view", "purchase"}] :
     ev.type = "purchase" => ev.user_id = "u3"}
\* The k of a search, and the users searched for (u4 never has a vector).
Ks == {1, 2}
TargetUserIds == NeighbourUserIds \cup {"u4"}

RegisterNeighbourEvent(ev) ==
  LET r == registerEvent(cache, interactions, userVectors, ev)
  IN  /\ Len(interactions) < MaxNeighbourEvents
      /\ interactions' = r.interactions
      /\ userVectors' = r.userVectors
      /\ op' = "registerEvent"
      /\ args' = ev
      /\ result' = r.ret
      /\ aux' = <<>>
      /\ UNCHANGED cache

\* topKNeighbors(userId, k): the <<user, similarity>> pairs it returns.
TopKNeighbors(userId, k) ==
  /\ op' = "topKNeighbors"
  /\ args' = [userId |-> userId, k |-> k]
  /\ result' = topKNeighbors(userVectors, userId, k)
  /\ aux' = <<>>
  /\ UNCHANGED <<cache, interactions, userVectors>>

NextNeighbours ==
  /\ Idle
  /\ \/ \E ev \in NeighbourEvents : RegisterNeighbourEvent(ev)
     \/ \E u \in TargetUserIds, k \in Ks : TopKNeighbors(u, k)

SpecNeighbours == Init /\ [][NextNeighbours]_vars

\* -------------------------------------------------------------- properties
\* What the properties read off a state.
CanonUsers == {Canon(u) : u \in RawUserIds}
CanonProducts == {Canon(p) : p \in RawProductIds}
VectorOf(u) == IF MapHas(userVectors, u) THEN MapGet(userVectors, u) ELSE <<>>
Seen(u, p) == MapHas(VectorOf(u), p)
IsBlend == op = "recommendBlend"
BlendUser == Canon(args.userId[1])
AlphaOf == IF Given(args.alpha) THEN Clamp01(args.alpha[1]) ELSE <<1, 2>>
BetaOf == IF Given(args.beta) THEN Clamp01(args.beta[1]) ELSE <<0, 1>>
BiasOf == IF Given(args.biasCats) THEN args.biasCats[1] ELSE <<>>
LimitOf == IF Given(args.limit) THEN args.limit[1] ELSE 5
Tagged(row) == SeqHas(row.reasons, "bias_category")

\* The weights as the specification lists them.
ListedWeight(type) ==
  CASE type = "view" -> 1 [] type = "cart" -> 3 [] type = "purchase" -> 5

RECURSIVE WeightSum(_, _, _)
\* The sum of the weights of the recorded interactions of the users in us
\* with the product p.
WeightSum(evs, us, p) ==
  IF evs = <<>> THEN 0
  ELSE (IF Head(evs).user_id \in us /\ Head(evs).product_id = p
        THEN ListedWeight(Head(evs).type) ELSE 0)
       + WeightSum(Tail(evs), us, p)

\* C1: a blend for a user with excludeSeen true or unset returns no product
\* that is a key of that user's interaction vector.
C1_BlendExcludesSeen ==
  (IsBlend /\ Truthy(args.userId) /\ args.excludeSeen # <<FALSE>>)
    => \A i \in 1..Len(result) : ~Seen(BlendUser, result[i].product_id)

\* C2: a blend with a seed and excludeSeed true or unset returns no row
\* whose product id is the canonical seed id.
C2_BlendExcludesSeed ==
  (IsBlend /\ Truthy(args.productId) /\ args.excludeSeed # <<FALSE>>)
    => \A i \in 1..Len(result) : result[i].product_id # Canon(args.productId[1])

\* A registerEvent step for a product the catalog snapshot does not hold.
C3_IgnoredStep ==
  (op' = "registerEvent" /\ ~MapHas(cache.byId, Canon(args'.product_id)))
    => /\ result' = [ok |-> FALSE, ignored |-> TRUE]
       /\ interactions' = interactions
       /\ MapHas(userVectors', Canon(args'.user_id))
            <=> MapHas(userVectors, Canon(args'.user_id))
       /\ userVectors' = userVectors

\* C3: registerEvent for a product that is not in the catalog snapshot
\* answers not-accepted with ignored = true and leaves the interaction list
\* and every user vector as they were, creating no vector for the user.
C3_UnknownProductIgnored == [][C3_IgnoredStep]_vars

\* An ignored event of a user who has no vector, in a store that already
\* holds interactions.
C3_Witness ==
  /\ op = "registerEvent"
  /\ result = [ok |-> FALSE, ignored |-> TRUE]
  /\ Len(interactions) > 0
  /\ ~MapHas(userVectors, Canon(args.user_id))

\* C4: in every state of the store, userVectors[u][p] is the sum of the
\* weights (view 1, cart 3, purchase 5) of the recorded interactions of u
\* with p, and is absent exactly when there is none.
C4_VectorsSumWeights ==
  /\ \A u \in CanonUsers, p \in CanonProducts :
       IF \E i \in 1..Len(interactions) :
            interactions[i].user_id = u /\ interactions[i].product_id = p
       THEN Seen(u, p) /\ MapGet(VectorOf(u), p) = WeightSum(interactions, {u}, p)
       ELSE ~Seen(u, p)
  /\ \A i \in 1..Len(userVectors) :
       /\ userVectors[i][1] \in CanonUsers
       /\ \A j \in 1..Len(userVectors[i][2]) :
            userVectors[i][2][j][1] \in CanonProducts

\* The same cart event recorded twice, counted twice.
C4_Witness ==
  /\ Len(interactions) = 2
  /\ interactions[1] = interactions[2]
  /\ interactions[1].type = "cart"
  /\ MapGet(VectorOf(interactions[1].user_id), interactions[1].product_id) = 6

\* C5: once an interaction has been accepted, recommendForUser with a limit
\* of at least 1 and a blend with a user id return a non-empty list.
C5_NeverEmptyForUser ==
  Len(interactions) >= 1 =>
    /\ (op = "recommendForUser" /\ args.limit >= 1) => Len(result) >= 1
    /\ (IsBlend /\ Truthy(args.userId)) => Len(result) >= 1

\* A blend for a user who has a vector, whose combined ranking was empty.
C5_Witness ==
  /\ IsBlend
  /\ Truthy(args.userId)
  /\ MapHas(userVectors, BlendUser)
  /\ aux.fallback
  /\ Len(result) >= 1

\* The popularity of a product: the weights of all users' interactions.
Popularity(p) == WeightSum(interactions, CanonUsers, p)
FirstEvent(p) ==
  CHOOSE i \in 1..Len(interactions) :
    /\ interactions[i].product_id = p
    /\ \A j \in 1..(i - 1) : interactions[j].product_id # p
\* p ranks before q: more popular, or as popular and recorded first.
RanksBefore(p, q) ==
  \/ Popularity(p) > Popularity(q)
  \/ Popularity(p) = Popularity(q) /\ FirstEvent(p) < FirstEvent(q)
\* rows are the first limit products of the popularity ranking, in order.
IsPopularityPrefix(rows, limit) ==
  LET ranked == {p \in CanonProducts : Popularity(p) > 0}
      ids == [i \in 1..Len(rows) |-> rows[i].product_id]
  IN  /\ Len(rows) = Min(limit, Cardinality(ranked))
      /\ \A i \in 1..Len(ids) : ids[i] \in ranked
      /\ \A i, j \in 1..Len(ids) : i < j => RanksBefore(ids[i], ids[j])
      /\ \A q \in ranked \ Range(ids) :
           \A i \in 1..Len(ids) : RanksBefore(ids[i], q)
ColdStartBlend ==
  /\ IsBlend
  /\ Truthy(args.userId)
  /\ ~MapHas(userVectors, BlendUser)
  /\ ~Given(args.productId)
  /\ ~Given(args.query)
  /\ BetaOf[1] = 0

\* C6: for a user with no accepted interaction, recommendForUser and a blend
\* with the user id only (no seed, no query, beta 0, any alpha) return the
\* first limit products of the popularity ranking, in that order.
C6_ColdStartIsPopularity ==
  /\ (op = "recommendForUser" /\ ~MapHas(userVectors, Canon(args.userId)))
       => IsPopularityPrefix(result, args.limit)
  /\ ColdStartBlend => IsPopularityPrefix(result, LimitOf)

\* A cold-start blend with alpha 1 that returns two products, the more
\* popular of which was recorded after the other.
C6_Witness ==
  /\ ColdStartBlend
  /\ AlphaOf = <<1, 1>>
  /\ Len(result) = 2
  /\ Popularity(result[1].product_id) > Popularity(result[2].product_id)
  /\ FirstEvent(result[1].product_id) > FirstEvent(result[2].product_id)

\* beta > 0, the bias list is not empty and the product has a category that
\* matches one of the list, whatever the case of either.
ShouldTag(pid) ==
  /\ BetaOf[1] > 0
  /\ Len(BiasOf) > 0
  /\ \E c \in Range(MapGet(cache.byId, pid).categories), b \in Range(BiasOf) :
       toLowerCase(c) = toLowerCase(b)

\* C7 as stated: every row of every blend carries bias_category exactly when
\* beta > 0, the bias list is not empty and a category of the product matches.
C7_TagOnEveryRow ==
  IsBlend => \A i \in 1..Len(result) :
               Tagged(result[i]) <=> ShouldTag(result[i].product_id)

\* C7: in a blend that is not the popularity fallback, a row carries
\* bias_category exactly when beta > 0, the bias list is not empty and a
\* category of the product matches; the rows of the fallback never carry it.
C7_TagOnRankedRows ==
  IsBlend => \A i \in 1..Len(result) :
               IF aux.fallback THEN ~Tagged(result[i])
               ELSE Tagged(result[i]) <=> ShouldTag(result[i].product_id)

\* A ranked result with beta > 0 that holds a tagged and an untagged row.
C7_Witness ==
  /\ IsBlend
  /\ ~aux.fallback
  /\ BetaOf[1] > 0
  /\ \E i, j \in 1..Len(result) : Tagged(result[i]) /\ ~Tagged(result[j])

ContentOf(row) == MapGet0(aux.content, row.product_id)
CfOf(row) == MapGet0(aux.cf, row.product_id)

\* C8 as stated: with alpha 1 any two returned rows are in the order of
\* their content scores, with alpha 0 in the order of their collaborative
\* scores.
C8_OrderOfAllRows ==
  IsBlend => \A i, j \in 1..Len(result) : i < j =>
               /\ AlphaOf = <<1, 1>> => ContentOf(result[i]) >= ContentOf(result[j])
               /\ AlphaOf[1] = 0 => CfOf(result[i]) >= CfOf(result[j])

\* C8: in a blend that is not the popularity fallback, any two returned rows
\* neither of which carries bias_category are in the order of their content
\* scores when alpha is 1 and of their collaborative scores when alpha is 0.
C8_OrderOfUnbiasedRows ==
  (IsBlend /\ ~aux.fallback) =>
    \A i, j \in 1..Len(result) :
      (i < j /\ ~Tagged(result[i]) /\ ~Tagged(result[j])) =>
        /\ AlphaOf = <<1, 1>> => ContentOf(result[i]) >= ContentOf(result[j])
        /\ AlphaOf[1] = 0 => CfOf(result[i]) >= CfOf(result[j])

\* A ranked result with alpha 1 in which two untagged rows differ in content
\* score and a tagged row stands before an untagged row of higher score.
C8_Witness ==
  /\ IsBlend
  /\ ~aux.fallback
  /\ AlphaOf = <<1, 1>>
  /\ \E i, j \in 1..Len(result) :
       /\ i < j /\ ~Tagged(result[i]) /\ ~Tagged(result[j])
       /\ ContentOf(result[i]) > ContentOf(result[j])
  /\ \E i, j \in 1..Len(result) :
       /\ i < j /\ Tagged(result[i]) /\ ~Tagged(result[j])
       /\ ContentOf(result[i]) < ContentOf(result[j])

\* No candidate is a product of u's own vector, and every candidate is a
\* product of the vector of a selected neighbour.
CandidatesFromNeighbours(cand, neigh, u) ==
  \A i \in 1..Len(cand) :
    /\ ~Seen(u, cand[i][1])
    /\ \E n \in 1..Len(neigh) : Seen(neigh[n][1], cand[i][1])

\* C9: for a user with a non-empty vector, the candidate scores built from
\* the neighbours (in recommendForUser and in cfScoresForUser) hold no
\* product of the user's own vector and only products of the vector of a
\* selected neighbour.
C9_CandidatesFromNeighbours ==
  /\ (op = "recommendForUser" /\ Len(VectorOf(Canon(args.userId))) > 0)
       => CandidatesFromNeighbours(aux.candidateScore, aux.neigh,
                                   Canon(args.userId))
  /\ (IsBlend /\ Truthy(args.userId) /\ aux.hadVector)
       => CandidatesFromNeighbours(aux.cf, aux.neigh, BlendUser)

\* The neighbour branch of recommendForUser with a neighbour whose vector
\* holds a product the user has and one the user has not.
C9_Witness ==
  /\ op = "recommendForUser"
  /\ aux.branch = "neighbors"
  /\ Len(result) >= 1
  /\ \E n \in 1..Len(aux.neigh), p \in CanonProducts :
       /\ Seen(aux.neigh[n][1], p)
       /\ Seen(Canon(args.userId), p)
       /\ Seen(aux.neigh[n][1], result[1].product_id)

\* C10: recommendByProductId returns no row for the canonical seed id, and
\* the empty list when the seed is not in the catalog.
C10_SeedNeverReturned ==
  op = "recommendByProductId" =>
    /\ \A i \in 1..Len(result) : result[i].product_id # Canon(args.productId)
    /\ ~MapHas(cache.byId, Canon(args.productId)) => Len(result) = 0

\* A seed written with blanks and capitals, answered with two other products.
C10_Witness ==
  /\ op = "recommendByProductId"
  /\ args.productId = " P1 "
  /\ Len(result) = 2
  /\ \A i \in 1..Len(result) : result[i].product_id \in {"p2", "p3", "p4"}

\* u and v have a product in common.
SharesProduct(u, v) ==
  \E i \in 1..Len(VectorOf(u)) : Seen(v, VectorOf(u)[i][1])
\* The other users that have a product in common with u.
Sharers(u) ==
  {Canon(v) : v \in {w \in NeighbourUserIds :
                       Canon(w) # u /\ MapHas(userVectors, Canon(w))
                       /\ SharesProduct(u, Canon(w))}}

\* C11: topKNeighbors(user, k) never returns the user itself, returns at
\* most k users, each once, in non-increasing order of similarity, each with
\* a product in common with the user and a similarity above 0; it returns
\* every such user when there are at most k, and nothing for a user without
\* a vector.
C11_NeighboursRanked ==
  op = "topKNeighbors" =>
    LET u == Canon(args.userId)
        ids == [i \in 1..Len(result) |-> result[i][1]]
    IN  /\ \A i \in 1..Len(result) :
             /\ ids[i] # u
             /\ ids[i] \in Sharers(u)
             /\ result[i][2] > 0
             /\ result[i][2] = cosineSparse(VectorOf(u), VectorOf(ids[i]))
        /\ Len(result) <= args.k
        /\ \A i, j \in 1..Len(result) :
             i < j => ids[i] # ids[j] /\ result[i][2] >= result[j][2]
        /\ Cardinality(Sharers(u)) <= args.k => Sharers(u) = Range(ids)
        /\ ~MapHas(userVectors, u) => Len(result) = 0

\* Two neighbours returned, the closer one first although its vector was
\* created after the other's.
C11_Witness ==
  /\ op = "topKNeighbors"
  /\ Len(result) = 2
  /\ result[1][2] > result[2][2]
  /\ MapIdx(userVectors, result[1][1]) > MapIdx(userVectors, result[2][1])

ScoringOps ==
  {"recommendByProductId", "recommendByQuery", "recommendForUser",
   "recommendBlend"}

\* A step of a scoring operation changes nothing of the store and the cache;
\* a step that changes the store is an accepted registerEvent.
C12_FrameStep ==
  /\ op' \in ScoringOps
       => /\ interactions' = interactions
          /\ userVectors' = userVectors
          /\ cache'.products = cache.products
          /\ cache'.byId = cache.byId
          /\ cache'.model = cache.model
  /\ (interactions' # interactions \/ userVectors' # userVectors)
       => op' = "registerEvent" /\ result' = [ok |-> TRUE]

\* C12: every scoring operation (recommendByProductId, recommendByQuery,
\* recommendForUser, recommendBlend, their popularity fallbacks included)
\* leaves the interaction list, every user vector, the catalog snapshot and
\* the TF-IDF model unchanged; only an accepted registerEvent changes the
\* interaction list and the user vectors.
C12_ScoringLeavesStore == [][C12_FrameStep]_vars

\* recommendForUser answered from the popularity ranking for a user who has
\* a vector but no candidate, in a store of two users.
C12_Witness ==
  /\ op = "recommendForUser"
  /\ MapHas(userVectors, Canon(args.userId))
  /\ aux.branch = "popular"
  /\ Len(userVectors) = 2
  /\ Len(result) >= 1

\* The weight uv holds for user u and product p, 0 when it holds none.
EntryIn(uv, u, p) == IF MapHas(uv, u) THEN MapGet0(MapGet(uv, u), p) ELSE 0

\* A step keeps the interactions recorded so far as a prefix of the list,
\* keeps every user vector and every entry, lowers no weight; an accepted
\* registerEvent appends the event, canonicalised, and raises the entry of
\* its user and product by the weight of its type, and no other entry.
C13_GrowStep ==
  /\ Len(interactions') >= Len(interactions)
  /\ SubSeq(interactions', 1, Len(interactions)) = interactions
  /\ \A i \in 1..Len(userVectors) :
       /\ MapHas(userVectors', userVectors[i][1])
       /\ \A j \in 1..Len(userVectors[i][2]) :
            /\ MapHas(MapGet(userVectors', userVectors[i][1]),
                      userVectors[i][2][j][1])
            /\ EntryIn(userVectors', userVectors[i][1], userVectors[i][2][j][1])
                 >= userVectors[i][2][j][2]
  /\ (op' = "registerEvent" /\ result' = [ok |-> TRUE])
       => /\ interactions' =
               Append(interactions,
                      [user_id |-> Canon(args'.user_id),
                       product_id |-> Canon(args'.product_id),
                       type |-> args'.type])
          /\ \A u \in CanonUsers, p \in CanonProducts :
               EntryIn(userVectors', u, p) =
                 EntryIn(userVectors, u, p)
                 + (IF u = Canon(args'.user_id) /\ p = Canon(args'.product_id)
                    THEN ListedWeight(args'.type) ELSE 0)

\* C13: across every step the store only grows: the interaction list keeps
\* the list before the step as a prefix, no user vector and no entry is
\* removed, no weight decreases; an accepted registerEvent appends exactly
\* one interaction and raises exactly one entry by the weight of its type.
C13_StoreOnlyGrows == [][C13_GrowStep]_vars

\* A cart event followed by a purchase of the same product by the same
\* user: two interactions, one entry of weight 8.
C13_Witness ==
  /\ Len(interactions) = 2
  /\ interactions[1].type = "cart"
  /\ interactions[2].type = "purchase"
  /\ interactions[1].user_id = interactions[2].user_id
  /\ interactions[1].product_id = interactions[2].product_id
  /\ Len(userVectors) = 1
  /\ userVectors[1][2] = <<<<interactions[1].product_id, 8>>>>

=============================================================================
